---------------------------- MODULE Spec2Model ----------------------------
(***************************************************************************)
(* Model of reindeer's metadata index (src/src/index.rs) and lockfile      *)
(* lookup (src/src/lockfile.rs).                                           *)
(*                                                                         *)
(* Strings that the code takes apart (renames, crate names) are sequences  *)
(* of one-character strings, so that str::replace('-', "_") is computed    *)
(* and not assumed.  Option<T> is <<>> (None) or <<v>> (Some(v)).          *)
(* A panic (unwrap/expect/assert! failing) is a result with panic = TRUE.  *)
(***************************************************************************)
EXTENDS Naturals, Integers, Sequences, FiniteSets, TLC

VARIABLES
    root_is_real,   \* argument of Index::new
    metadata,       \* argument of Index::new: the cargo metadata snapshot
    index,          \* the Index: [state |-> "unbuilt" | "built" | "panicked", ...]
    cargo_lock,     \* the file at paths.lockfile_path
    lockfile,       \* the Lockfile: [state |-> "unloaded" | "loaded" | "error", ...]
    out             \* the last call and what it returned

vars == <<root_is_real, metadata, index, cargo_lock, lockfile, out>>

-----------------------------------------------------------------------------
(* Option<T> *)
None == <<>>
Some(v) == <<v>>
IsSome(o) == o /= <<>>
Unwrap(o) == o[1]

(* A set as a sequence without repetition, in a fixed order. *)
RECURSIVE SetToSeq(_)
SetToSeq(S) ==
    IF S = {} THEN <<>>
    ELSE LET x == CHOOSE y \in S : TRUE IN <<x>> \o SetToSeq(S \ {x})

(* All sequences over S of length at most n. *)
SeqsUpTo(S, n) == UNION {[1..k -> S] : k \in 0..n}

(* All orders in which the elements of the finite set S can be visited. *)
Perms(S) ==
    {f \in [1..Cardinality(S) -> S] : \A x \in S : \E i \in DOMAIN f : f[i] = x}

Range(s) == {s[i] : i \in DOMAIN s}

-----------------------------------------------------------------------------
(* cargo::DepKind, and the kinds of a cargo::ManifestTarget *)
DepKinds == {"normal", "dev", "build"}
TargetKinds ==
    {"lib", "bin", "example", "test", "bench", "proc-macro", "cdylib", "custom-build"}

(* cargo::TargetReq, as far as Index::new names it *)
TargetReq_Lib == "Lib"
TargetReq_EveryBin == "EveryBin"
TargetReqs == {TargetReq_Lib, TargetReq_EveryBin}

(* NodeDepKind::target_req: the library target unless the record asks for
   the binaries of the dependency (an artifact dependency). *)
target_req(dep_kind) ==
    IF dep_kind.artifact = None THEN TargetReq_Lib ELSE TargetReq_EveryBin

(* ManifestTarget::kind_*() *)
kind_lib(tgt) == tgt.kind = "lib"
kind_proc_macro(tgt) == tgt.kind = "proc-macro"
kind_bin(tgt) == tgt.kind = "bin"
kind_cdylib(tgt) == tgt.kind = "cdylib"
kind_bench(tgt) == tgt.kind = "bench"
kind_test(tgt) == tgt.kind = "test"
kind_example(tgt) == tgt.kind = "example"
kind_custom_build(tgt) == tgt.kind = "custom-build"

-----------------------------------------------------------------------------
(* str::replace('-', "_") on a string given as its characters *)
ReplaceHyphens(s) == [i \in DOMAIN s |-> IF s[i] = "-" THEN "_" ELSE s[i]]

(* The same collection keeping the first pair of each key instead. *)
CollectFirstWins(pairs) ==
    LET keys == {pairs[i].key : i \in DOMAIN pairs}
        first(k) == CHOOSE i \in DOMAIN pairs :
                      /\ pairs[i].key = k
                      /\ \A j \in DOMAIN pairs : j < i => pairs[j].key /= k
    IN [k \in keys |-> pairs[first(k)].val]

(* collect::<HashMap<_, _>>() / collect::<BTreeMap<_, _>>() of a sequence of
   [key, val] pairs: a later pair replaces an earlier one with the same key. *)
CollectLastWins(pairs) ==
    LET keys == {pairs[i].key : i \in DOMAIN pairs}
        last(k) == CHOOSE i \in DOMAIN pairs :
                      /\ pairs[i].key = k
                      /\ \A j \in DOMAIN pairs : j > i => pairs[j].key /= k
    IN [k \in keys |-> pairs[last(k)].val]

(* Flatten a sequence of sequences. *)
RECURSIVE Concat(_)
Concat(ss) == IF ss = <<>> THEN <<>> ELSE Head(ss) \o Concat(Tail(ss))

MapGet(m, k) == IF k \in DOMAIN m THEN Some(m[k]) ELSE None

-----------------------------------------------------------------------------
(* Index::new, lines 107 and 120: the two lookup maps.  A repeated id keeps
   the last package (node) of the list. *)
pkgid_to_pkg_of(md) ==
    CollectLastWins([i \in DOMAIN md.packages |->
                        [key |-> md.packages[i].id, val |-> md.packages[i]]])

pkgid_to_node_of(md) ==
    CollectLastWins([i \in DOMAIN md.resolve.nodes |->
                        [key |-> md.resolve.nodes[i].id, val |-> md.resolve.nodes[i]]])

(* The variant of resolved_deps that yields one tuple per edge, taken from
   the edge's first kind record. *)
resolved_deps_one_per_edge(self, pkg) ==
    IF pkg.id \notin DOMAIN self.pkgid_to_node
    THEN [panic |-> TRUE, items |-> <<>>]
    ELSE
      LET deps == SelectSeq(self.pkgid_to_node[pkg.id].deps,
                            LAMBDA nd : nd.dep_kinds /= <<>>)
          nameOf(i) ==
              IF IsSome(deps[i].name) THEN deps[i].name
              ELSE deps[i].dep_kinds[1].extern_name
      IN IF \E i \in DOMAIN deps :
               nameOf(i) = None \/ deps[i].pkg \notin DOMAIN self.pkgid_to_pkg
         THEN [panic |-> TRUE, items |-> <<>>]
         ELSE [panic |-> FALSE,
               items |-> [i \in DOMAIN deps |->
                   [rename |-> Unwrap(nameOf(i)),
                    dep_kind |-> deps[i].dep_kinds[1],
                    dep_kind_ref |-> <<i, 1>>,
                    package |-> self.pkgid_to_pkg[deps[i].pkg]]]]

(* The variant of resolved_deps that passes over an edge whose package has
   no manifest instead of panicking. *)
resolved_deps_skip_unknown(self, pkg) ==
    IF pkg.id \notin DOMAIN self.pkgid_to_node
    THEN [panic |-> TRUE, items |-> <<>>]
    ELSE
      LET all == self.pkgid_to_node[pkg.id].deps
          known == {i \in DOMAIN all : all[i].pkg \in DOMAIN self.pkgid_to_pkg}
          nameOf(i, j) ==
              IF IsSome(all[i].name) THEN all[i].name
              ELSE all[i].dep_kinds[j].extern_name
      IN IF \E i \in known : \E j \in DOMAIN all[i].dep_kinds : nameOf(i, j) = None
         THEN [panic |-> TRUE, items |-> <<>>]
         ELSE [panic |-> FALSE,
               items |-> Concat([i \in DOMAIN all |->
                   IF i \in known
                   THEN [j \in DOMAIN all[i].dep_kinds |->
                           [rename |-> Unwrap(nameOf(i, j)),
                            dep_kind |-> all[i].dep_kinds[j],
                            dep_kind_ref |-> <<i, j>>,
                            package |-> self.pkgid_to_pkg[all[i].pkg]]]
                   ELSE <<>>])]

(* Index::resolved_deps: one tuple per (edge, kind record) of the package's
   node, in edge order.  dep_kind_ref is the address of the borrowed
   NodeDepKind: <<edge position, position in the edge's dep_kinds>>.
   The unwraps panic when the package has no node, when an edge has neither
   a name nor an extern_name, or when the edge's package has no manifest. *)
resolved_deps(self, pkg) ==
    IF pkg.id \notin DOMAIN self.pkgid_to_node
    THEN [panic |-> TRUE, items |-> <<>>]
    ELSE
      LET deps == self.pkgid_to_node[pkg.id].deps
          nameOf(i, j) ==
              IF IsSome(deps[i].name) THEN deps[i].name
              ELSE deps[i].dep_kinds[j].extern_name
          bad(i, j) ==
              \/ nameOf(i, j) = None
              \/ deps[i].pkg \notin DOMAIN self.pkgid_to_pkg
          tuple(i, j) ==
              [rename |-> Unwrap(nameOf(i, j)),
               dep_kind |-> deps[i].dep_kinds[j],
               dep_kind_ref |-> <<i, j>>,
               package |-> self.pkgid_to_pkg[deps[i].pkg]]
      IN IF \E i \in DOMAIN deps : \E j \in DOMAIN deps[i].dep_kinds : bad(i, j)
         THEN [panic |-> TRUE, items |-> <<>>]
         ELSE [panic |-> FALSE,
               items |-> Concat([i \in DOMAIN deps |->
                           [j \in DOMAIN deps[i].dep_kinds |-> tuple(i, j)]])]

(* Index::new, lines 127-134: normalized rename -> rename, over the root's
   declarations that carry a rename. *)
dep_renamed_of(root_pkg) ==
    LET withRename == SelectSeq(root_pkg.dependencies, LAMBDA dep : IsSome(dep.rename))
    IN CollectLastWins([i \in DOMAIN withRename |->
          [key |-> ReplaceHyphens(Unwrap(withRename[i].rename)),
           val |-> Unwrap(withRename[i].rename)]])

(* Index::new, lines 138-150: the pairs handed to collect::<BTreeMap>, in
   order: one per resolved tuple of the root, then the top-level ones. *)
public_target_entries(items, dep_renamed, top_levels) ==
    [i \in DOMAIN items |->
        [key |-> <<items[i].package.id, target_req(items[i].dep_kind)>>,
         val |-> MapGet(dep_renamed, items[i].rename)]]
    \o Concat([t \in DOMAIN top_levels |->
            << [key |-> <<top_levels[t], TargetReq_Lib>>, val |-> None],
               [key |-> <<top_levels[t], TargetReq_EveryBin>>, val |-> None] >>])

(* The variant of top_levels_of that never makes the root a top level. *)
top_levels_never(rir, root_pkg) == <<>>

(* Index::new, lines 113-116: the ids of top_levels *)
top_levels_of(rir, root_pkg) == IF rir THEN <<root_pkg.id>> ELSE <<>>

(* The variant of public_packages_of that looks at library targets only. *)
public_packages_of_lib_only(public_targets) ==
    {k[1] : k \in {q \in DOMAIN public_targets : q[2] = TargetReq_Lib}}

(* Index::new, lines 153-155: the packages of the public targets *)
public_packages_of(public_targets) == {k[1] : k \in DOMAIN public_targets}

Unbuilt == [state |-> "unbuilt"]
Panicked == [state |-> "panicked"]

(* Index::new *)
Index_new(rir, md) ==
    LET p2p == pkgid_to_pkg_of(md)
    IN IF md.resolve.root = None THEN Panicked
       ELSE IF Unwrap(md.resolve.root) \notin DOMAIN p2p THEN Panicked
       ELSE
         LET root_pkg == p2p[Unwrap(md.resolve.root)]
             top_levels == top_levels_of(rir, root_pkg)
             tmp == [state |-> "built",
                     pkgid_to_pkg |-> p2p,
                     pkgid_to_node |-> pkgid_to_node_of(md),
                     root_pkg |-> root_pkg,
                     public_packages |-> {},
                     public_targets |-> <<>>]
             rd == resolved_deps(tmp, root_pkg)
         IN IF rd.panic THEN Panicked
            ELSE
              LET public_targets ==
                      CollectLastWins(public_target_entries(
                          rd.items, dep_renamed_of(root_pkg), top_levels))
              IN [tmp EXCEPT
                     !.public_targets = public_targets,
                     !.public_packages = public_packages_of(public_targets)]

(* Index::is_root_package *)
is_root_package(self, pkg) == self.root_pkg.id = pkg.id

(* Index::is_public_package *)
is_public_package(self, pkg) == pkg.id \in self.public_packages

(* Index::is_public_target *)
is_public_target(self, pkg, req) == <<pkg.id, req>> \in DOMAIN self.public_targets

(* Index::all_packages *)
all_packages(self) == {self.pkgid_to_pkg[id] : id \in DOMAIN self.pkgid_to_pkg}

(* Index::public_rule_name *)
public_rule_name(self, pkg) ==
    LET got == MapGet(self.public_targets, <<pkg.id, TargetReq_Lib>>)
    IN IF got = None \/ Unwrap(got) = None THEN pkg.name
       ELSE Unwrap(Unwrap(got))


-----------------------------------------------------------------------------
(* platform::PlatformPredicate, as a syntax tree; its Display output is the
   text of that tree. *)
Flag(n) == [op |-> "flag", name |-> n, args |-> <<>>]
PredAny(preds) == [op |-> "any", name |-> "", args |-> preds]

(* format!("cfg({})", plat).into(): the PlatformExpr wrapping a predicate *)
Cfg(pred) == [op |-> "cfg", name |-> "", args |-> <<pred>>]

(* PlatformPredicate::parse on the platform strings of the model *)
PlatformPredicate_parse(plat) ==
    CASE plat = "cfg(windows)" -> [ok |-> TRUE, pred |-> Flag("windows")]
      [] plat = "cfg(unix)" -> [ok |-> TRUE, pred |-> Flag("unix")]
      [] OTHER -> [ok |-> FALSE, pred |-> Flag("")]

(* Whether a predicate or guard holds on a platform given by its set of
   true flags. *)
RECURSIVE Holds(_, _)
Holds(e, flags) ==
    CASE e.op = "flag" -> e.name \in flags
      [] e.op = "any" -> \E i \in DOMAIN e.args : Holds(e.args[i], flags)
      [] e.op = "cfg" -> Holds(e.args[1], flags)

-----------------------------------------------------------------------------
(* The variant of dep_applies in which a dev-dependency also feeds the
   library-like targets. *)
dep_applies_dev_everywhere(dep, tgt) ==
    CASE dep.kind = "normal" ->
            kind_lib(tgt) \/ kind_proc_macro(tgt) \/ kind_bin(tgt) \/ kind_cdylib(tgt)
      [] dep.kind = "dev" ->
            kind_bench(tgt) \/ kind_test(tgt) \/ kind_example(tgt) \/ kind_lib(tgt)
      [] dep.kind = "build" -> kind_custom_build(tgt)

(* Index::deps_for_target, the filter's closure (lines 282-288) *)
dep_applies(dep, tgt) ==
    CASE dep.kind = "normal" ->
            kind_lib(tgt) \/ kind_proc_macro(tgt) \/ kind_bin(tgt) \/ kind_cdylib(tgt)
      [] dep.kind = "dev" -> kind_bench(tgt) \/ kind_test(tgt) \/ kind_example(tgt)
      [] dep.kind = "build" -> kind_custom_build(tgt)

(* Index::deps_for_target: the assertion, then the filtered declarations *)
deps_for_target(pkg, tgt) ==
    IF tgt \notin Range(pkg.targets)
    THEN [panic |-> TRUE, deps |-> <<>>]
    ELSE [panic |-> FALSE,
          deps |-> SelectSeq(pkg.dependencies, LAMBDA dep : dep_applies(dep, tgt))]

(* The variant of merge_platforms in which an unconditional declaration is
   skipped instead of clearing the list and ending the loop. *)
RECURSIVE merge_platforms_no_break(_, _)
merge_platforms_no_break(mdeps, platforms) ==
    IF mdeps = <<>> THEN platforms
    ELSE IF IsSome(Head(mdeps).target)
    THEN LET r == PlatformPredicate_parse(Unwrap(Head(mdeps).target))
         IN IF r.ok
            THEN merge_platforms_no_break(Tail(mdeps), Append(platforms, r.pred))
            ELSE merge_platforms_no_break(Tail(mdeps), platforms)
    ELSE merge_platforms_no_break(Tail(mdeps), platforms)

(* Index::resolved_deps_for_target, the loop of lines 313-333 over the
   declarations of one name in the order the HashSet yields them: the
   list of parsed predicates it ends with. *)
RECURSIVE merge_platforms(_, _)
merge_platforms(mdeps, platforms) ==
    IF mdeps = <<>> THEN platforms
    ELSE IF IsSome(Head(mdeps).target)
    THEN LET r == PlatformPredicate_parse(Unwrap(Head(mdeps).target))
         IN IF r.ok
            THEN merge_platforms(Tail(mdeps), Append(platforms, r.pred))
            ELSE merge_platforms(Tail(mdeps), platforms)
    ELSE <<>>

(* The variant of platform_guard that keeps only the first of several
   predicates. *)
platform_guard_first_only(platforms) ==
    IF platforms = <<>> THEN None ELSE Some(Cfg(platforms[1]))

(* Index::resolved_deps_for_target, the match of lines 337-341 *)
platform_guard(platforms) ==
    CASE Len(platforms) = 0 -> None
      [] Len(platforms) = 1 -> Some(Cfg(platforms[1]))
      [] OTHER -> Some(Cfg(PredAny(platforms)))

(* Index::resolved_deps_for_target.  order lists the declarations that
   deps_for_target yields, each once, in the order their HashSets are
   iterated (a HashSet holds equal declarations once). *)
resolved_deps_for_target(self, pkg, tgt, order) ==
    LET dft == deps_for_target(pkg, tgt)
    IN IF dft.panic THEN [panic |-> TRUE, items |-> <<>>]
       ELSE
         LET names == {dft.deps[i].name : i \in DOMAIN dft.deps}
             mdeps(n) == SelectSeq(order, LAMBDA dep : dep.name = n)
             rd == resolved_deps(self, pkg)
             matching == SelectSeq(rd.items, LAMBDA it : it.package.name \in names)
         IN IF rd.panic THEN [panic |-> TRUE, items |-> <<>>]
            ELSE [panic |-> FALSE,
                  items |-> [i \in DOMAIN matching |->
                     [package |-> matching[i].package,
                      platform |-> platform_guard(
                          merge_platforms(mdeps(matching[i].package.name), <<>>)),
                      rename |-> matching[i].rename,
                      dep_kind |-> matching[i].dep_kind,
                      dep_kind_ref |-> matching[i].dep_kind_ref]]]

(* The iteration orders of the HashSets built at lines 298-306 *)
hash_orders(pkg, tgt) ==
    LET dft == deps_for_target(pkg, tgt)
    IN IF dft.panic THEN {<<>>} ELSE Perms(Range(dft.deps))


-----------------------------------------------------------------------------
(* The variant of extra_keys that stops at the first key without a
   matching dependency. *)
extra_keys_first_only(res, pubpkgs) ==
    LET unmatched == {name \in DOMAIN res : name \notin pubpkgs}
    IN IF unmatched = {} THEN {} ELSE {CHOOSE name \in unmatched : TRUE}

(* Index::get_extra_meta, the loop of lines 215-226: the names added to
   PackageMetaError.extra *)
extra_keys(res, pubpkgs) == {name \in DOMAIN res : name \notin pubpkgs}

(* serde_json::from_value::<HashMap<String, ExtraMetadata>> (line 211): the
   value must be a table whose every entry holds an "oncall" string. *)
decode_third_party(v) ==
    IF v.is_table /\ \A name \in DOMAIN v.entries : IsSome(v.entries[name].oncall)
    THEN [ok |-> TRUE,
          map |-> [name \in DOMAIN v.entries |-> [oncall |-> Unwrap(v.entries[name].oncall)]]]
    ELSE [ok |-> FALSE, map |-> <<>>]

(* Index::get_extra_meta *)
get_extra_meta(self) ==
    LET deps == self.root_pkg.dependencies
        pubpkgs == {deps[i].name : i \in DOMAIN deps}
        third == self.root_pkg.metadata.third_party
        dec == IF third = None THEN [ok |-> TRUE, map |-> <<>>]
               ELSE decode_third_party(Unwrap(third))
    IN IF ~dec.ok THEN [kind |-> "Err", error |-> "serde_json", extra |-> {}, map |-> <<>>]
       ELSE
         LET extra == extra_keys(dec.map, pubpkgs)
             ret == [name \in DOMAIN dec.map \ extra |-> dec.map[name]]
         IN IF extra = {}
            THEN [kind |-> "Ok", error |-> "", extra |-> {}, map |-> ret]
            ELSE [kind |-> "Err", error |-> "PackageMetaError", extra |-> extra, map |-> <<>>]

-----------------------------------------------------------------------------
(* Ordering.  Ord::cmp yields "Less", "Equal" or "Greater". *)
CharCode(c) ==
    CASE c = "-" -> 45 [] c = "A" -> 65 [] c = "B" -> 66 [] c = "C" -> 67
      [] c = "R" -> 82 [] c = "_" -> 95 [] c = "a" -> 97 [] c = "b" -> 98
      [] c = "x" -> 120 [] c = "y" -> 121 [] c = "z" -> 122

cmp_nat(a, b) == IF a < b THEN "Less" ELSE IF a > b THEN "Greater" ELSE "Equal"

(* Lexicographic comparison of two sequences of naturals (str, and the
   numeric fields of a version). *)
RECURSIVE cmp_lex(_, _)
cmp_lex(a, b) ==
    IF a = <<>> /\ b = <<>> THEN "Equal"
    ELSE IF a = <<>> THEN "Less"
    ELSE IF b = <<>> THEN "Greater"
    ELSE IF cmp_nat(Head(a), Head(b)) /= "Equal" THEN cmp_nat(Head(a), Head(b))
    ELSE cmp_lex(Tail(a), Tail(b))

(* <String as Ord>::cmp *)
cmp_str(a, b) ==
    cmp_lex([i \in DOMAIN a |-> CharCode(a[i])], [i \in DOMAIN b |-> CharCode(b[i])])

(* <semver::Version as Ord>::cmp, for versions <<major, minor, patch>>
   without pre-release or build metadata *)
cmp_version(a, b) == cmp_lex(a, b)

(* <cargo::Source as Ord>::cmp, a source being its URL-like string *)
cmp_source(a, b) == cmp_str(a, b)

(* <Option<Source> as Ord>::cmp: None is below every Some *)
cmp_opt_source(a, b) ==
    IF a = None /\ b = None THEN "Equal"
    ELSE IF a = None THEN "Less"
    ELSE IF b = None THEN "Greater"
    ELSE cmp_source(Unwrap(a), Unwrap(b))

(* The variant of cmp_key that looks at the name alone. *)
cmp_key_name_only(a, b) == cmp_str(a.name, b.name)

(* The comparison of Lockfile::load (lines 35-37) and Lockfile::find
   (lines 44, 47): tuples (name, version, source), field by field *)
cmp_key(a, b) ==
    IF cmp_str(a.name, b.name) /= "Equal" THEN cmp_str(a.name, b.name)
    ELSE IF cmp_version(a.version, b.version) /= "Equal"
    THEN cmp_version(a.version, b.version)
    ELSE cmp_opt_source(a.source, b.source)

(* Insert x into the sorted sequence s after every element not above it. *)
RECURSIVE insert_sorted(_, _)
insert_sorted(s, x) ==
    IF s = <<>> THEN <<x>>
    ELSE IF cmp_key(x, Head(s)) = "Less" THEN <<x>> \o s
    ELSE <<Head(s)>> \o insert_sorted(Tail(s), x)

(* The variant of sort_by that leaves the entries as the file lists them. *)
sort_by_skipped(s) == s

(* slice::sort_by with cmp_key (lines 34-38): a stable sort *)
RECURSIVE sort_by(_)
sort_by(s) ==
    IF s = <<>> THEN <<>>
    ELSE insert_sorted(sort_by(SubSeq(s, 1, Len(s) - 1)), s[Len(s)])

(* slice::binary_search_by with cmp_key against key (lines 45-47), the loop
   of the standard library: it halves size without leaving early on Equal,
   keeping base at the probed position unless that one is Greater.  base
   is the 0-based index; the result is the base the loop ends with. *)
RECURSIVE binary_search_loop(_, _, _, _)
binary_search_loop(s, key, base, size) ==
    IF size <= 1 THEN base
    ELSE LET half == size \div 2
             mid == base + half
             c == cmp_key(s[mid + 1], key)
         IN binary_search_loop(s, key, IF c = "Greater" THEN base ELSE mid, size - half)

(* slice::binary_search_by: Ok(at) or Err(at), at a 0-based index.  After
   the loop the element at base is compared once more. *)
binary_search_by(s, key) ==
    IF Len(s) = 0 THEN [found |-> FALSE, at |-> 0]
    ELSE LET base == binary_search_loop(s, key, 0, Len(s))
             c == cmp_key(s[base + 1], key)
         IN IF c = "Equal" THEN [found |-> TRUE, at |-> base]
            ELSE [found |-> FALSE, at |-> IF c = "Less" THEN base + 1 ELSE base]

(* Lockfile::load: the file must be readable and parse; the packages are
   then sorted. *)
Lockfile_load(file) ==
    IF file.status /= "ok" THEN [state |-> "error", packages |-> <<>>]
    ELSE [state |-> "loaded", packages |-> sort_by(file.packages)]

(* Lockfile::find *)
Lockfile_find(self, manifest) ==
    LET r == binary_search_by(self.packages, manifest)
    IN IF r.found THEN Some(self.packages[r.at + 1]) ELSE None


-----------------------------------------------------------------------------
(* Building blocks of the metadata snapshots the model is run on *)
MaxDecls == 3       \* declared dependencies of the root in a snapshot
MaxLock == 4        \* [[package]] tables of a Cargo.lock

NameR == <<"R">>
NameA == <<"A">>
NameB == <<"B">>

ManifestDep(name, rename, kind, target) ==
    [name |-> name, rename |-> rename, kind |-> kind, target |-> target]

ManifestTarget(kind) == [name |-> <<"x">>, kind |-> kind]

AllTargets == {ManifestTarget(k) : k \in TargetKinds}

(* A target that belongs to no package of the snapshots *)
ForeignTarget == [name |-> <<"y">>, kind |-> "lib"]

Manifest(id, name, dependencies, targets, third_party) ==
    [id |-> id, name |-> name, dependencies |-> dependencies,
     targets |-> targets, metadata |-> [third_party |-> third_party]]

NodeDepKind(kind, extern_name, artifact) ==
    [kind |-> kind, extern_name |-> extern_name, artifact |-> artifact]

NodeDep(pkg, name, dep_kinds) == [pkg |-> pkg, name |-> name, dep_kinds |-> dep_kinds]

Node(id, deps) == [id |-> id, deps |-> deps, features |-> <<>>]

Metadata(packages, root, nodes) ==
    [packages |-> packages, resolve |-> [root |-> root, nodes |-> nodes]]

NoMetadata == Metadata(<<>>, None, <<>>)
NoCargoLock == [status |-> "missing", packages |-> <<>>]
NoLockfile == [state |-> "unloaded", packages |-> <<>>]
NoCall == [op |-> "none"]

LeafA == Manifest("a", NameA, <<>>, <<ManifestTarget("lib")>>, None)
LeafB == Manifest("b", NameB, <<>>, <<ManifestTarget("lib"), ManifestTarget("bin")>>, None)

PlatformOpts == {None, Some("cfg(windows)"), Some("cfg(unix)"), Some("cfg(windows")}

-----------------------------------------------------------------------------
(* Snapshots for the per-target resolution: the root R declares up to
   MaxDecls dependencies on A and B, of the three kinds and with every
   platform condition, and its node has edges to A and B carrying zero,
   one or two kind records.  The declarations are listed in one fixed
   order: resolved_deps_for_target puts them into HashSets, whose
   iteration orders the call then draws. *)
ResolveDecls ==
    {ManifestDep(NameA, None, k, t) : k \in {"normal", "dev"}, t \in PlatformOpts}
    \cup {ManifestDep(NameA, Some(<<"z">>), "normal", Some("cfg(windows)")),
          ManifestDep(NameA, None, "build", None),
          ManifestDep(NameB, None, "normal", None)}

KindNormal == NodeDepKind("normal", None, None)
KindDev == NodeDepKind("dev", None, None)
KindBuild == NodeDepKind("build", None, None)

ResolveEdgeLists ==
    { <<>>,
      <<NodeDep("a", Some(NameA), <<KindNormal>>)>>,
      <<NodeDep("a", Some(NameA), <<KindNormal, KindDev>>)>>,
      <<NodeDep("a", Some(NameA), <<>>), NodeDep("b", Some(NameB), <<KindNormal>>)>>,
      <<NodeDep("b", Some(NameB), <<KindNormal, KindBuild>>),
        NodeDep("a", Some(NameA), <<KindDev>>)>>,
      <<NodeDep("a", Some(NameA), <<KindDev>>), NodeDep("a", Some(<<"z">>), <<KindNormal>>)>> }

ResolveSnapshot(decls, edges) ==
    Metadata(
        <<Manifest("r", NameR, SetToSeq(decls), SetToSeq(AllTargets), None), LeafA, LeafB>>,
        Some("r"),
        <<Node("r", edges), Node("a", <<>>), Node("b", <<>>)>>)

InitResolve ==
    /\ root_is_real = FALSE
    /\ \E decls \in SUBSET ResolveDecls : \E edges \in ResolveEdgeLists :
          /\ Cardinality(decls) <= MaxDecls
          /\ metadata = ResolveSnapshot(decls, edges)
    /\ index = Unbuilt
    /\ cargo_lock = NoCargoLock
    /\ lockfile = NoLockfile
    /\ out = NoCall

-----------------------------------------------------------------------------
(* Snapshots for the public set: the root declares renamed dependencies,
   and its node has up to MaxEdges edges, to A, to B and to the root
   itself, named by the edge or by the kind record, for the library or for
   the binaries. *)
MaxEdges == 2       \* resolved edges of the root in a snapshot

NameXY == <<"x", "_", "y">>
NameXhY == <<"x", "-", "y">>
NameZ == <<"z">>

KindLib == NodeDepKind("normal", None, None)
KindBin == NodeDepKind("normal", None, Some("bin"))
KindBinExternZ == NodeDepKind("normal", Some(NameZ), Some("bin"))

VisDeclLists ==
    { <<>>,
      <<ManifestDep(NameA, Some(NameXhY), "normal", None)>>,
      <<ManifestDep(NameA, Some(NameXhY), "normal", None),
        ManifestDep(NameB, Some(NameXY), "normal", None)>>,
      <<ManifestDep(NameB, Some(NameXY), "normal", None),
        ManifestDep(NameA, Some(NameXhY), "dev", None)>>,
      <<ManifestDep(NameA, None, "normal", None),
        ManifestDep(NameB, Some(NameZ), "build", None)>> }

VisEdges ==
    { NodeDep("r", Some(NameXY), <<KindLib>>),
      NodeDep("r", Some(NameR), <<KindLib, KindBin>>),
      NodeDep("r", None, <<KindBinExternZ>>),
      NodeDep("a", Some(NameXY), <<KindLib>>),
      NodeDep("a", Some(NameA), <<KindLib, KindBin>>),
      NodeDep("b", None, <<KindBinExternZ>>) }

VisSnapshot(decls, edges) ==
    Metadata(
        <<Manifest("r", NameR, decls, <<ManifestTarget("lib")>>, None), LeafA, LeafB>>,
        Some("r"),
        <<Node("r", edges), Node("a", <<>>), Node("b", <<>>)>>)

InitVis ==
    /\ root_is_real \in BOOLEAN
    /\ \E decls \in VisDeclLists : \E edges \in SeqsUpTo(VisEdges, MaxEdges) :
          metadata = VisSnapshot(decls, edges)
    /\ index = Unbuilt
    /\ cargo_lock = NoCargoLock
    /\ lockfile = NoLockfile
    /\ out = NoCall

-----------------------------------------------------------------------------
(* Snapshots for the consistency of catalog and graph: any of the packages
   R, A, B may lack its manifest or its node, the resolve root may be
   absent, and edges may lead to a package without manifest or carry no
   name. *)
GraphIds == {"r", "a", "b"}

GraphManifest(id) ==
    CASE id = "r" -> Manifest("r", NameR, <<ManifestDep(NameA, None, "normal", None)>>,
                              <<ManifestTarget("lib")>>, None)
      [] id = "a" -> Manifest("a", NameA, <<ManifestDep(NameB, None, "normal", None)>>,
                              <<ManifestTarget("lib")>>, None)
      [] id = "b" -> LeafB

GraphName(id) == GraphManifest(id).name

GraphEdgeLists ==
    { <<>>,
      <<NodeDep("a", Some(NameA), <<KindLib>>)>>,
      <<NodeDep("b", Some(NameB), <<KindLib>>)>>,
      <<NodeDep("a", Some(NameA), <<KindLib>>), NodeDep("b", Some(NameB), <<KindLib>>)>>,
      <<NodeDep("b", None, <<KindLib>>)>>,
      <<NodeDep("b", Some(NameB), <<>>)>> }

GraphSnapshot(pkgs, root, nodes, redges, aedges) ==
    Metadata(
        [i \in DOMAIN SetToSeq(pkgs) |-> GraphManifest(SetToSeq(pkgs)[i])],
        root,
        [i \in DOMAIN SetToSeq(nodes) |->
            LET id == SetToSeq(nodes)[i]
            IN Node(id, IF id = "r" THEN redges ELSE IF id = "a" THEN aedges ELSE <<>>)])

InitGraph ==
    /\ root_is_real \in BOOLEAN
    /\ \E pkgs \in SUBSET GraphIds : \E nodes \in SUBSET GraphIds :
         \E root \in {None, Some("r")} :
         \E redges \in GraphEdgeLists : \E aedges \in GraphEdgeLists :
           metadata = GraphSnapshot(pkgs, root, nodes, redges, aedges)
    /\ index = Unbuilt
    /\ cargo_lock = NoCargoLock
    /\ lockfile = NoLockfile
    /\ out = NoCall

-----------------------------------------------------------------------------
(* Snapshots for the extra metadata: the root declares some of A and B, and
   its metadata has no "third-party" value, one that is not a table, or a
   table of up to MaxMetaKeys keys among A, B, C, z, each with or without
   an "oncall" string. *)
MaxMetaKeys == 3    \* keys of the "third-party" table

MetaKeys == {NameA, NameB, <<"C">>, NameZ}

MetaDeclLists ==
    { <<>>,
      <<ManifestDep(NameA, None, "normal", None)>>,
      <<ManifestDep(NameA, Some(NameZ), "normal", None),
        ManifestDep(NameB, None, "dev", None)>> }

ThirdPartyValues ==
    {None, Some([is_table |-> FALSE, entries |-> <<>>])}
    \cup {Some([is_table |-> TRUE, entries |-> e]) :
            e \in UNION {[keys -> {[oncall |-> None], [oncall |-> Some(<<"a">>)]}] :
                           keys \in {k \in SUBSET MetaKeys : Cardinality(k) <= MaxMetaKeys}}}

MetaSnapshot(decls, third_party) ==
    Metadata(
        <<Manifest("r", NameR, decls, <<ManifestTarget("lib")>>, third_party), LeafA, LeafB>>,
        Some("r"),
        <<Node("r", <<>>), Node("a", <<>>), Node("b", <<>>)>>)

InitMeta ==
    /\ root_is_real = FALSE
    /\ \E decls \in MetaDeclLists : \E third_party \in ThirdPartyValues :
          metadata = MetaSnapshot(decls, third_party)
    /\ index = Unbuilt
    /\ cargo_lock = NoCargoLock
    /\ lockfile = NoLockfile
    /\ out = NoCall

-----------------------------------------------------------------------------
(* Cargo.lock files: up to MaxLock [[package]] tables in any order, with
   repetitions, among them tables that share (name, version, source) and
   differ in checksum; or a file that is missing or does not parse. *)
LockNames == {<<"a">>, <<"a", "b">>}
LockVersions == {<<1, 2, 0>>, <<1, 10, 0>>}
LockSources == {None, Some(<<"x">>)}

(* The manifests find is called with *)
LockTriples ==
    {[name |-> n, version |-> v, source |-> src] :
        n \in LockNames, v \in LockVersions, src \in LockSources}

LockfilePackage(t, checksum) ==
    [name |-> t.name, version |-> t.version, source |-> t.source, checksum |-> checksum]

LockPackages ==
    {LockfilePackage(t, None) : t \in {q \in LockTriples : q.source = None}}
    \cup {LockfilePackage([name |-> <<"a">>, version |-> <<1, 2, 0>>, source |-> Some(<<"x">>)], None),
          LockfilePackage([name |-> <<"a", "b">>, version |-> <<1, 10, 0>>, source |-> Some(<<"x">>)], None)}
    \cup {LockfilePackage([name |-> <<"a">>, version |-> <<1, 2, 0>>, source |-> None], Some(c)) :
            c \in {<<"a">>, <<"b">>}}

InitLock ==
    /\ root_is_real = FALSE
    /\ metadata = NoMetadata
    /\ index = Unbuilt
    /\ \/ cargo_lock \in {[status |-> st, packages |-> <<>>] : st \in {"missing", "garbage"}}
       \/ \E pkgs \in SeqsUpTo(LockPackages, MaxLock) :
             cargo_lock = [status |-> "ok", packages |-> pkgs]
    /\ lockfile = NoLockfile
    /\ out = NoCall

-----------------------------------------------------------------------------
(* The operations *)

(* Index::new(root_is_real, &metadata) *)
New ==
    /\ index.state = "unbuilt"
    /\ index' = Index_new(root_is_real, metadata)
    /\ out' = [op |-> "new"]
    /\ UNCHANGED <<root_is_real, metadata, cargo_lock, lockfile>>

(* index.resolved_deps_for_target(pkg, tgt), the result collected *)
ResolvedDepsForTarget ==
    /\ index.state = "built"
    /\ \E pkg \in all_packages(index) : \E tgt \in Range(pkg.targets) \cup {ForeignTarget} :
         \E order \in hash_orders(pkg, tgt) :
           out' = [op |-> "resolved_deps_for_target", pkg |-> pkg, tgt |-> tgt,
                   order |-> order,
                   res |-> resolved_deps_for_target(index, pkg, tgt, order)]
    /\ UNCHANGED <<root_is_real, metadata, index, cargo_lock, lockfile>>

(* index.is_public_package(pkg) *)
IsPublicPackage ==
    /\ index.state = "built"
    /\ \E pkg \in all_packages(index) :
          out' = [op |-> "is_public_package", pkg |-> pkg,
                  res |-> is_public_package(index, pkg)]
    /\ UNCHANGED <<root_is_real, metadata, index, cargo_lock, lockfile>>

(* index.is_public_target(pkg, target_req) *)
IsPublicTarget ==
    /\ index.state = "built"
    /\ \E pkg \in all_packages(index) : \E req \in TargetReqs :
          out' = [op |-> "is_public_target", pkg |-> pkg, req |-> req,
                  res |-> is_public_target(index, pkg, req)]
    /\ UNCHANGED <<root_is_real, metadata, index, cargo_lock, lockfile>>

(* index.public_rule_name(pkg) *)
PublicRuleName ==
    /\ index.state = "built"
    /\ \E pkg \in all_packages(index) :
          out' = [op |-> "public_rule_name", pkg |-> pkg,
                  res |-> public_rule_name(index, pkg)]
    /\ UNCHANGED <<root_is_real, metadata, index, cargo_lock, lockfile>>

(* index.get_extra_meta() *)
GetExtraMeta ==
    /\ index.state = "built"
    /\ out' = [op |-> "get_extra_meta", res |-> get_extra_meta(index)]
    /\ UNCHANGED <<root_is_real, metadata, index, cargo_lock, lockfile>>

(* Lockfile::load(paths) *)
Load ==
    /\ lockfile.state = "unloaded"
    /\ lockfile' = Lockfile_load(cargo_lock)
    /\ out' = [op |-> "load"]
    /\ UNCHANGED <<root_is_real, metadata, index, cargo_lock>>

(* lockfile.find(manifest) *)
Find ==
    /\ lockfile.state = "loaded"
    /\ \E m \in LockTriples :
          out' = [op |-> "find", manifest |-> m, res |-> Lockfile_find(lockfile, m)]
    /\ UNCHANGED <<root_is_real, metadata, index, cargo_lock, lockfile>>

NextResolve == New \/ ResolvedDepsForTarget
SpecResolve == InitResolve /\ [][NextResolve]_vars

NextVis == New \/ IsPublicPackage \/ IsPublicTarget \/ PublicRuleName
SpecVis == InitVis /\ [][NextVis]_vars

NextGraph == New \/ ResolvedDepsForTarget
SpecGraph == InitGraph /\ [][NextGraph]_vars

NextMeta == New \/ GetExtraMeta
SpecMeta == InitMeta /\ [][NextMeta]_vars

NextLock == Load \/ Find
SpecLock == InitLock /\ [][NextLock]_vars

(* Every snapshot and file above, and every operation *)
Init == InitResolve \/ InitVis \/ InitGraph \/ InitMeta \/ InitLock
Next ==
    \/ New
    \/ IsPublicPackage
    \/ IsPublicTarget
    \/ PublicRuleName
    \/ GetExtraMeta
    \/ ResolvedDepsForTarget
    \/ Load
    \/ Find
Spec == Init /\ [][Next]_vars


-----------------------------------------------------------------------------
(* What the properties below are stated in: the snapshot itself and the
   applicability table as the specification gives it. *)
KindTable ==
    [normal |-> {"lib", "proc-macro", "bin", "cdylib"},
     dev |-> {"bench", "test", "example"},
     build |-> {"custom-build"}]

(* The declarations of pkg named name whose kind the table allows for tgt *)
GroupOf(pkg, tgt, name) ==
    {d \in Range(pkg.dependencies) : d.name = name /\ tgt.kind \in KindTable[d.kind]}

(* The node of the snapshot with the given id, and the manifest *)
NodeOf(id) == CHOOSE n \in Range(metadata.resolve.nodes) : n.id = id
ManifestOf(id) == CHOOSE m \in Range(metadata.packages) : m.id = id

Resolved == out.op = "resolved_deps_for_target" /\ ~out.res.panic

ParsedOf(group) == {d \in group : d.target /= None /\ PlatformPredicate_parse(Unwrap(d.target)).ok}

Platforms == SUBSET {"windows", "unix"}

(* C1: in a result of resolved_deps_for_target, a dependency whose group of
   applicable declarations holds a declaration without platform string has
   the guard None, in whatever order the group is iterated and whatever
   else the group holds. *)
C1_UnconditionalAbsorbs ==
    Resolved =>
      \A i \in DOMAIN out.res.items :
        LET group == GroupOf(out.pkg, out.tgt, out.res.items[i].package.name)
        IN (\E d \in group : d.target = None) => out.res.items[i].platform = None

(* C1 witness: a group of three (unconditional, parsable, unparsable) that
   was iterated with the unconditional declaration last. *)
C1_Witness ==
    /\ Resolved
    /\ \E i \in DOMAIN out.res.items :
         LET group == GroupOf(out.pkg, out.tgt, out.res.items[i].package.name)
         IN /\ Cardinality(group) = 3
            /\ ParsedOf(group) /= {}
            /\ \E d \in group : d.target /= None /\ d \notin ParsedOf(group)
            /\ Len(out.order) = 3
            /\ out.order[3].target = None
            /\ out.order[3] \in group
            /\ out.res.items[i].platform = None

(* C2: when no declaration of the group is unconditional, the guard comes
   from the declarations whose platform string parses: none gives None, one
   predicate p gives cfg(p), several give a guard that holds on exactly the
   platforms on which one of them holds; an unparsable string does not
   abort the call. *)
C2_GuardIsOrOfParsed ==
    /\ (out.op = "resolved_deps_for_target" /\ out.tgt \in Range(out.pkg.targets))
          => ~out.res.panic
    /\ Resolved =>
         \A i \in DOMAIN out.res.items :
           LET group == GroupOf(out.pkg, out.tgt, out.res.items[i].package.name)
               parsed == ParsedOf(group)
               preds == {PlatformPredicate_parse(Unwrap(d.target)).pred : d \in parsed}
               guard == out.res.items[i].platform
           IN (\A d \in group : d.target /= None) =>
                /\ parsed = {} => guard = None
                /\ Cardinality(parsed) = 1 =>
                      guard = Some(Cfg(CHOOSE p \in preds : TRUE))
                /\ Cardinality(parsed) > 1 =>
                      /\ guard /= None
                      /\ \A flags \in Platforms :
                            Holds(Unwrap(guard), flags)
                              <=> \E p \in preds : Holds(p, flags)

(* C2 witness: cfg(windows), cfg(unix) and an unparsable string declared
   for one name give a guard that holds on windows and on unix and not
   elsewhere. *)
C2_Witness ==
    /\ Resolved
    /\ \E i \in DOMAIN out.res.items :
         LET group == GroupOf(out.pkg, out.tgt, out.res.items[i].package.name)
         IN /\ {d.target : d \in group}
                  = {Some("cfg(windows)"), Some("cfg(unix)"), Some("cfg(windows")}
            /\ out.res.items[i].platform /= None
            /\ Holds(Unwrap(out.res.items[i].platform), {"windows"})
            /\ Holds(Unwrap(out.res.items[i].platform), {"unix"})
            /\ ~Holds(Unwrap(out.res.items[i].platform), {})

(* C3: resolved_deps_for_target never yields a dependency all of whose
   declarations in the package have a kind the table does not allow for
   the target's kind. *)
C3_OnlyApplicableKinds ==
    Resolved =>
      \A i \in DOMAIN out.res.items :
        \E d \in Range(out.pkg.dependencies) :
          /\ d.name = out.res.items[i].package.name
          /\ out.tgt.kind \in KindTable[d.kind]

(* C3 witness: the root declares A only as a dev-dependency and has a
   resolved edge to A; the call for its library target yields nothing. *)
C3_Witness ==
    /\ Resolved
    /\ out.pkg.id = "r"
    /\ out.tgt.kind = "lib"
    /\ out.pkg.dependencies /= <<>>
    /\ \A d \in Range(out.pkg.dependencies) : d.name = NameA /\ d.kind = "dev"
    /\ \E e \in Range(NodeOf("r").deps) : e.pkg = "a" /\ e.dep_kinds /= <<>>
    /\ out.res.items = <<>>

(* The edges of pkg's node that lead to a package with a non-empty group
   for tgt, and the (edge, kind record) positions on those edges *)
MatchingEdges(pkg, tgt) ==
    LET deps == NodeOf(pkg.id).deps
    IN {i \in DOMAIN deps : GroupOf(pkg, tgt, ManifestOf(deps[i].pkg).name) /= {}}

MatchingRecords(pkg, tgt) ==
    LET deps == NodeOf(pkg.id).deps
    IN UNION {{<<i, j>> : j \in DOMAIN deps[i].dep_kinds} : i \in MatchingEdges(pkg, tgt)}

(* C9 as stated: one result for each resolved edge whose dependency name
   has a non-empty group, however many kind records the edge carries. *)
C9_OnePerEdge ==
    Resolved =>
      \A i \in DOMAIN NodeOf(out.pkg.id).deps :
        LET n == Cardinality({k \in DOMAIN out.res.items :
                                out.res.items[k].dep_kind_ref[1] = i})
        IN IF i \in MatchingEdges(out.pkg, out.tgt)
           THEN NodeOf(out.pkg.id).deps[i].dep_kinds /= <<>> => n = 1
           ELSE n = 0

(* C9 amended: one result for each kind record of each resolved edge whose
   dependency name has a non-empty group, and no other result. *)
C9_OnePerKindRecord ==
    Resolved =>
      /\ Len(out.res.items) = Cardinality(MatchingRecords(out.pkg, out.tgt))
      /\ {out.res.items[k].dep_kind_ref : k \in DOMAIN out.res.items}
            = MatchingRecords(out.pkg, out.tgt)

(* C9 witness: an edge with two kind records and a non-empty group has two
   results. *)
C9_Witness ==
    /\ Resolved
    /\ \E i \in MatchingEdges(out.pkg, out.tgt) :
         /\ Len(NodeOf(out.pkg.id).deps[i].dep_kinds) = 2
         /\ Cardinality({k \in DOMAIN out.res.items :
                            out.res.items[k].dep_kind_ref[1] = i}) = 2


-----------------------------------------------------------------------------
(* The public set *)
RootId == Unwrap(metadata.resolve.root)
CatalogIds == {metadata.packages[i].id : i \in DOMAIN metadata.packages}
NodeIds == {metadata.resolve.nodes[i].id : i \in DOMAIN metadata.resolve.nodes}

(* The (edge, kind record) positions of the root's node that ask for
   target req of package id *)
RootRecordsFor(id, req) ==
    LET deps == NodeOf(RootId).deps
    IN UNION {{<<i, j>> : j \in {k \in DOMAIN deps[i].dep_kinds :
                                    target_req(deps[i].dep_kinds[k]) = req}} :
              i \in {e \in DOMAIN deps : deps[e].pkg = id}}

(* C4: with root_is_real the library and the binaries of the root are
   public targets; without it either is public only if a resolved edge of
   the root leads to the root itself and asks for that target. *)
C4_RootPublicWhenReal ==
    (out.op = "is_public_target" /\ out.pkg.id = RootId) =>
      /\ root_is_real => out.res
      /\ (~root_is_real /\ out.res) => RootRecordsFor(RootId, out.req) /= {}

(* C4 witness: the binaries of a real root are public although no edge of
   the root leads to the root. *)
C4_Witness ==
    /\ out.op = "is_public_target"
    /\ out.pkg.id = RootId
    /\ out.req = TargetReq_EveryBin
    /\ root_is_real
    /\ NodeOf(RootId).deps /= <<>>
    /\ \A e \in Range(NodeOf(RootId).deps) : e.pkg /= RootId
    /\ out.res

(* C5: a package of the catalog is a public package exactly if one of its
   targets is a public target. *)
C5_PublicPackageIffSomeTarget ==
    index.state = "built" =>
      \A i \in DOMAIN metadata.packages :
        is_public_package(index, metadata.packages[i])
          <=> \E req \in TargetReqs : is_public_target(index, metadata.packages[i], req)

(* C5 witness: B is a public package through its binaries alone. *)
C5_Witness ==
    /\ out.op = "is_public_package"
    /\ out.pkg.id = "b"
    /\ out.res
    /\ ~is_public_target(index, out.pkg, TargetReq_Lib)
    /\ is_public_target(index, out.pkg, TargetReq_EveryBin)

(* The value the records of the root's edges give key: that of the last
   one in edge order, then record order. *)
LastRecordValue(key) ==
    LET recs == RootRecordsFor(key[1], key[2])
        last == CHOOSE r \in recs :
                   \A q \in recs : q[1] < r[1] \/ (q[1] = r[1] /\ q[2] <= r[2])
        edge == NodeOf(RootId).deps[last[1]]
        name == IF IsSome(edge.name) THEN edge.name
                ELSE edge.dep_kinds[last[2]].extern_name
    IN MapGet(dep_renamed_of(ManifestOf(RootId)), Unwrap(name))

(* C10: a key of the public targets maps to the value of the last entry
   recorded for it, the entries of the root's edges coming before the two
   entries of a real root; so the two keys of a real root map to no
   rename, and its public rule name is its package name. *)
C10_LastEntryWins ==
    index.state = "built" =>
      /\ \A key \in DOMAIN index.public_targets :
            index.public_targets[key] =
                IF root_is_real /\ key[1] = RootId THEN None ELSE LastRecordValue(key)
      /\ root_is_real =>
            /\ \A req \in TargetReqs :
                  MapGet(index.public_targets, <<RootId, req>>) = Some(None)
            /\ public_rule_name(index, ManifestOf(RootId)) = ManifestOf(RootId).name

(* C10 witness: a real root with an edge to its own library under a name
   that the root declares as a rename; its public rule name is still its
   package name. *)
C10_Witness ==
    /\ index.state = "built"
    /\ root_is_real
    /\ RootRecordsFor(RootId, TargetReq_Lib) /= {}
    /\ LastRecordValue(<<RootId, TargetReq_Lib>>) /= None
    /\ out.op = "public_rule_name"
    /\ out.pkg.id = RootId
    /\ out.res = NameR

-----------------------------------------------------------------------------
(* Catalog and graph *)
(* The ids of the nodes and of the packages their edges lead to (edges
   that carry at least one kind record, as every edge cargo writes does) *)
GraphPackageIds ==
    NodeIds \cup UNION {{n.deps[i].pkg : i \in {e \in DOMAIN n.deps : n.deps[e].dep_kinds /= <<>>}} :
                        n \in Range(metadata.resolve.nodes)}

(* An edge of the node of id, with a kind record, that has no name or
   leads to a package without manifest; or id has no node *)
EdgesBroken(id) ==
    \/ id \notin NodeIds
    \/ \E e \in Range(NodeOf(id).deps) : \E k \in Range(e.dep_kinds) :
          \/ e.name = None /\ k.extern_name = None
          \/ e.pkg \notin CatalogIds

RootBroken ==
    \/ metadata.resolve.root = None
    \/ RootId \notin CatalogIds
    \/ EdgesBroken(RootId)

(* C8 as stated: no index is built from a snapshot in which a package id
   of the resolution graph, a node's id or the package of a node's edge,
   has no manifest. *)
C8_EveryGraphIdChecked ==
    index.state = "built" => GraphPackageIds \subseteq CatalogIds

(* C8 amended: construction panics exactly when the resolve root is absent
   or without manifest or node, or when an edge of the root's node that
   carries a kind record is nameless or leads to a package without
   manifest; the same defect at another package's node is met when
   resolved_deps_for_target is called for that package. *)
C8_OnlyRootChecked ==
    /\ index.state /= "unbuilt" => (index.state = "panicked" <=> RootBroken)
    /\ (out.op = "resolved_deps_for_target" /\ out.tgt \in Range(out.pkg.targets))
          => (out.res.panic <=> EdgesBroken(out.pkg.id))

(* C8 witness: the index was built although A's node has an edge to B and
   B has no manifest; the call for A's library panics. *)
C8_Witness ==
    /\ index.state = "built"
    /\ "b" \notin CatalogIds
    /\ out.op = "resolved_deps_for_target"
    /\ out.pkg.id = "a"
    /\ out.tgt \in Range(out.pkg.targets)
    /\ "a" \in NodeIds
    /\ \E e \in Range(NodeOf("a").deps) : e.pkg = "b" /\ e.dep_kinds /= <<>>
    /\ out.res.panic

-----------------------------------------------------------------------------
(* The extra metadata *)
ThirdParty == ManifestOf(RootId).metadata.third_party

TableKeys ==
    IF ThirdParty /= None /\ Unwrap(ThirdParty).is_table
    THEN DOMAIN Unwrap(ThirdParty).entries ELSE {}

DeclaredNames == {d.name : d \in Range(ManifestOf(RootId).dependencies)}

Unmatched == TableKeys \ DeclaredNames

Deserializes ==
    \/ ThirdParty = None
    \/ /\ Unwrap(ThirdParty).is_table
       /\ \A k \in TableKeys : Unwrap(ThirdParty).entries[k].oncall /= None

AggregateOutcome ==
    /\ out.res.kind = "Err" <=> Unmatched /= {}
    /\ out.res.kind = "Err" => out.res.extra = Unmatched
    /\ Unmatched = {} => out.res.kind = "Ok" /\ DOMAIN out.res.map = TableKeys

(* C7 as stated, for a "third-party" value that is absent or a table:
   an error exactly if a key names no declared dependency, the error naming
   all those keys, and otherwise a map with an entry for every key. *)
C7_ErrorIffUnmatchedKey ==
    (out.op = "get_extra_meta" /\ (ThirdParty = None \/ Unwrap(ThirdParty).is_table))
      => AggregateOutcome

(* C7 amended: the same when the "third-party" value deserializes; a value
   that does not deserialize gives the deserializer's error, which names
   no key, whether or not the keys match. *)
C7_ErrorIffUnmatchedKeyWhenDeserializes ==
    out.op = "get_extra_meta" =>
      IF Deserializes THEN AggregateOutcome
      ELSE out.res.kind = "Err" /\ out.res.error = "serde_json" /\ out.res.extra = {}

(* C7 witness: a table with a matching key and two keys that match no
   dependency; the error names both. *)
C7_Witness ==
    /\ out.op = "get_extra_meta"
    /\ Deserializes
    /\ Cardinality(Unmatched) = 2
    /\ TableKeys \cap DeclaredNames /= {}
    /\ out.res.kind = "Err"
    /\ out.res.extra = Unmatched

-----------------------------------------------------------------------------
(* The lockfile *)
TripleOf(e) == [name |-> e.name, version |-> e.version, source |-> e.source]

(* C6: find returns an entry with the manifest's (name, version, source)
   if a scan of the file's entries meets one, and None otherwise. *)
C6_FindAgreesWithScan ==
    out.op = "find" =>
      IF \E e \in Range(cargo_lock.packages) : TripleOf(e) = out.manifest
      THEN /\ out.res /= None
           /\ TripleOf(Unwrap(out.res)) = out.manifest
           /\ Unwrap(out.res) \in Range(cargo_lock.packages)
      ELSE out.res = None

(* C6 witness: a file of four different entries that is not in sorted
   order, the last of which shares its triple with an earlier entry of
   another checksum; find returns the entry the file lists last. *)
C6_Witness ==
    /\ out.op = "find"
    /\ Len(cargo_lock.packages) = 4
    /\ Cardinality(Range(cargo_lock.packages)) = 4
    /\ cargo_lock.packages /= lockfile.packages
    /\ \E i \in 1..3 : TripleOf(cargo_lock.packages[i]) = TripleOf(cargo_lock.packages[4])
    /\ out.manifest = TripleOf(cargo_lock.packages[4])
    /\ out.res = Some(cargo_lock.packages[4])

=============================================================================
